---------------------------- MODULE Spec2Model ----------------------------
(***************************************************************************)
(* A model of astro.js: the position of the Sun and the Moon from Kepler   *)
(* elements, and the transit / rise / set solver built on it.              *)
(*                                                                         *)
(* Numbers.  The program computes in IEEE doubles; the model computes in   *)
(* decimal fixed point on TLC's integers:                                  *)
(*   - radians, sines, cosines, eccentricities and lengths (AU) are        *)
(*     integers in units of 1e-8 (One = 1.0);                              *)
(*   - degrees and hours are integers in units of 1e-6;                    *)
(*   - times are integers, in milliseconds, as in the program;             *)
(*   - NaN is one reserved integer that every operation propagates and     *)
(*     every comparison answers FALSE on, as IEEE comparisons do;          *)
(*   - a quotient too large to hold (a division by almost nothing) is      *)
(*     saturated to +-Inf.                                                 *)
(* Every transcendental function is computed (range reduction and a power  *)
(* series), none is taken as given.                                        *)
(***************************************************************************)
EXTENDS Integers, Sequences, FiniteSets, TLC

One == 10^8
Lim == 10^4
NaN == 0 - 2147483647
Inf == 2 * 10^9

(***************************************************************************)
(* The arithmetic is written as functions of integers, so that an operand  *)
(* is a value by the time it is used: f[a, b] evaluates a and b once.      *)
(***************************************************************************)
IsNaN(a) == a = NaN
Abs0(a) == IF a < 0 THEN 0 - a ELSE a
Sgn(a) == IF a < 0 THEN 0 - 1 ELSE 1

(* a / d rounded to the nearest integer, d > 0. *)
RDiv(a, d) == (a + (d \div 2)) \div d

(* a * b / 1e8 rounded to nearest, by four-digit limbs so that no partial  *)
(* product leaves the integers TLC has.                                    *)
Mul8[a \in Int, b \in Int] ==
  LET a1 == a \div Lim
      a0 == a % Lim
      b1 == b \div Lim
      b0 == b % Lim
  IN  a1 * b1 + RDiv(a1 * b0 + a0 * b1 + RDiv(a0 * b0, Lim), Lim)

(* Long division: the first n decimal digits of r / b after the point,     *)
(* appended to q (0 <= r < b), rounded to nearest on the last.             *)
LongDiv[q \in Int, r \in Int, b \in Int, n \in Nat] ==
  IF n = 0 THEN (IF r >= b - r THEN q + 1 ELSE q)
  ELSE LongDiv[q * 10 + ((r * 10) \div b), (r * 10) % b, b, n - 1]

(* a * 1e8 / b rounded to nearest, for a >= 0, b > 0; a quotient of 20 or  *)
(* more does not fit and is infinite.                                      *)
Div8Pos[a \in Int, b \in Int] ==
  IF a \div b >= 20 THEN Inf ELSE LongDiv[a \div b, a % b, b, 8]

(* IEEE multiplication, division, sum, difference on fixed-point values. *)
MulF[a \in Int, b \in Int] ==
  IF IsNaN(a) \/ IsNaN(b) THEN NaN
  ELSE IF Abs0(a) = Inf \/ Abs0(b) = Inf
       THEN (IF a = 0 \/ b = 0 THEN NaN ELSE Sgn(a) * Sgn(b) * Inf)
       ELSE Mul8[a, b]

DivF[a \in Int, b \in Int] ==
  IF IsNaN(a) \/ IsNaN(b) THEN NaN
  ELSE IF b = 0 THEN (IF a = 0 THEN NaN ELSE Sgn(a) * Inf)
  ELSE IF Abs0(a) = Inf THEN (IF Abs0(b) = Inf THEN NaN ELSE Sgn(a) * Sgn(b) * Inf)
  ELSE IF Abs0(b) = Inf THEN 0
  ELSE Sgn(a) * Sgn(b) * Div8Pos[Abs0(a), Abs0(b)]

AddF[a \in Int, b \in Int] ==
  IF IsNaN(a) \/ IsNaN(b) THEN NaN
  ELSE IF Abs0(a) = Inf THEN (IF b = 0 - a THEN NaN ELSE a)
  ELSE IF Abs0(b) = Inf THEN b
  ELSE a + b

NegF[a \in Int] == IF IsNaN(a) THEN NaN ELSE 0 - a

AbsF[a \in Int] == IF IsNaN(a) THEN NaN ELSE Abs0(a)

Mul(a, b) == MulF[a, b]
Div(a, b) == DivF[a, b]
Add(a, b) == AddF[a, b]
Neg(a) == NegF[a]
Sub(a, b) == AddF[a, NegF[b]]
Abs(a) == AbsF[a]

(* IEEE comparisons: FALSE as soon as an operand is NaN. *)
LeF[a \in Int, b \in Int] == ~IsNaN(a) /\ ~IsNaN(b) /\ a <= b
GtF[a \in Int, b \in Int] == ~IsNaN(a) /\ ~IsNaN(b) /\ a > b
GeF[a \in Int, b \in Int] == ~IsNaN(a) /\ ~IsNaN(b) /\ a >= b

Le(a, b) == LeF[a, b]
Gt(a, b) == GtF[a, b]
Ge(a, b) == GeF[a, b]

(* Math.PI and its multiples, in 1e-8 rad. *)
Pi == 314159265
HalfPi == RDiv(Pi, 2)
TwoPi == 2 * Pi + 1
QuarterPi == RDiv(Pi, 4)

(* Math.sin: reduction to [-pi/2, pi/2], then the Taylor series to x^15. *)
SinSeries[sum \in Int, term \in Int, r2 \in Int, k \in Nat] ==
  IF k > 7 THEN sum
  ELSE LET t == RDiv(Mul8[term, r2], (2 * k) * (2 * k + 1))
       IN  SinSeries[IF k % 2 = 1 THEN sum - t ELSE sum + t, t, r2, k + 1]

SinPos[r \in Int] ==
  LET s == SinSeries[r, r, Mul8[r, r], 1]
  IN  IF s > One THEN One ELSE s

SinRed[p \in Int] ==
  LET r == IF p > HalfPi THEN Pi - p
           ELSE IF p < 0 - HalfPi THEN 0 - Pi - p
           ELSE p
  IN  IF r < 0 THEN 0 - SinPos[0 - r] ELSE SinPos[r]

SinF[x \in Int] ==
  IF IsNaN(x) \/ Abs0(x) = Inf THEN NaN
  ELSE IF x % TwoPi > Pi THEN SinRed[(x % TwoPi) - TwoPi]
  ELSE SinRed[x % TwoPi]

Sin(a) == SinF[a]

(* Math.cos *)
CosF[x \in Int] ==
  IF IsNaN(x) \/ Abs0(x) = Inf THEN NaN ELSE SinF[x + HalfPi]

Cos(a) == CosF[a]

(* Math.sqrt: Newton's iteration from above (the arithmetic mean of v and  *)
(* 1 is at least their geometric mean), to the integer square root of      *)
(* v * 1e8.                                                                *)
SqrtNext[v \in Int, y \in Int, n \in Int] ==
  IF n >= y THEN y ELSE SqrtNext[v, n, (n + Div8Pos[v, n]) \div 2]

SqrtIter[v \in Int, y \in Int] == SqrtNext[v, y, (y + Div8Pos[v, y]) \div 2]

SqrtF[v \in Int] ==
  IF IsNaN(v) \/ v < 0 THEN NaN
  ELSE IF v = 0 THEN 0
  ELSE IF v = Inf THEN Inf
  ELSE SqrtIter[v, (v + One) \div 2 + 1]

Sqrt(a) == SqrtF[a]

(* atan on [0, tan(pi/8)]: the Gregory series to s^23. *)
AtanSeries[sum \in Int, pow \in Int, s2 \in Int, k \in Nat] ==
  IF k > 11 THEN sum
  ELSE AtanSeries[IF k % 2 = 1 THEN sum - RDiv(Mul8[pow, s2], 2 * k + 1)
                  ELSE sum + RDiv(Mul8[pow, s2], 2 * k + 1),
                  Mul8[pow, s2], s2, k + 1]

AtanSmall[s \in Int] == AtanSeries[s, s, Mul8[s, s], 1]

TanPi8 == SqrtF[2 * One] - One

(* atan on [0, 1]: atan t = pi/4 - atan((1 - t) / (1 + t)) above tan(pi/8). *)
AtanUnit[t \in Int] ==
  IF t <= TanPi8 THEN AtanSmall[t]
  ELSE QuarterPi - AtanSmall[Div8Pos[One - t, One + t]]

(* atan2 of two magnitudes, in [0, pi/2]. *)
AtanQuad[ay \in Int, ax \in Int] ==
  IF ax = 0 /\ ay = 0 THEN 0
  ELSE IF ay <= ax THEN AtanUnit[Div8Pos[ay, ax]]
  ELSE HalfPi - AtanUnit[Div8Pos[ax, ay]]

AtanHalf[a \in Int, x \in Int, y \in Int] ==
  IF x < 0 THEN (IF y < 0 THEN a - Pi ELSE Pi - a)
  ELSE (IF y < 0 THEN 0 - a ELSE a)

(* Math.atan2(y, x), in (-pi, pi]. *)
Atan2F[y \in Int, x \in Int] ==
  IF IsNaN(y) \/ IsNaN(x) THEN NaN
  ELSE AtanHalf[AtanQuad[Abs0(y), Abs0(x)], x, y]

Atan2(a, b) == Atan2F[a, b]

(* Math.asin and Math.acos: NaN outside [-1, 1]. *)
AsinF[v \in Int] ==
  IF IsNaN(v) \/ Abs0(v) > One THEN NaN
  ELSE Atan2F[v, SqrtF[One - Mul8[v, v]]]

AcosF[v \in Int] ==
  IF IsNaN(v) \/ Abs0(v) > One THEN NaN
  ELSE Atan2F[SqrtF[One - Mul8[v, v]], v]

Asin(a) == AsinF[a]
Acos(a) == AcosF[a]

(***************************************************************************)
(* Unit conversions.  Degrees and hours are held in units of 1e-6, radians *)
(* in units of 1e-8; each factor below is the program's factor times the   *)
(* ratio of the two units.                                                 *)
(***************************************************************************)
Micro == 10^6

(* deg * (Math.PI / 180) *)
DegToRad(d) == Mul(d, 174532925)
(* rad * (180 / Math.PI) *)
RadToDeg(r) == Mul(r, 57295780)
(* rad * (12 / Math.PI) *)
RadToHours(r) == Mul(r, 3819719)
(* hours * (Math.PI / 12) *)
HoursToRadF[h \in Int] == IF IsNaN(h) THEN NaN ELSE Mul8[h * 10, 261799388]
HoursToRad(h) == HoursToRadF[h]
(* lon * (1 / 15) *)
DegToHours(d) == Mul(d, 6666667)

(* coefficient * time for a coefficient written c * 1e-16 in the source,   *)
(* to a result in 1e-8 units (or, for c * 1e-14, in 1e-6 units).           *)
Rate(c, t) == Mul(t, c)

(***************************************************************************)
(* Lines 5-19: obliquity (radians), gmst (hours), parallax (degrees).      *)
(***************************************************************************)
obliquity(t) == Sub(41299400, Rate(41, t))

gmst(t) == Add(6699851, Rate(27853831, t))

parallax(dist) == Div(2443, dist)

(***************************************************************************)
(* Sun.setTime and Moon.setTime (lines 219-229, 249-259): the arguments    *)
(* a, e, i, lambda, pi, Omega handed to Planet.setTime.  The abstract      *)
(* Planet has none: its own setTime reads six undefined arguments.         *)
(***************************************************************************)
SunElements(t) ==
  [a   |-> 100000100,
   e   |-> Sub(1672100, IF IsNaN(t) THEN NaN ELSE (13 * (t \div 1000)) \div 10^7),
   i   |-> 0,
   lam |-> Add(489104500, Rate(1991064, t)),
   pi  |-> Add(492918500, Rate(95, t)),
   Om  |-> 0]

MoonElements(t) ==
  [a   |-> 256300,
   e   |-> 5554600,
   i   |-> 9000100,
   lam |-> Add(345509000, Rate(26617072, t)),
   pi  |-> Add(528222600, Rate(225041, t)),
   Om  |-> Sub(602636700, Rate(106970, t))]

Elements(k, t) ==
  IF k = "Sun" THEN SunElements(t)
  ELSE IF k = "Moon" THEN MoonElements(t)
  ELSE [a |-> NaN, e |-> NaN, i |-> NaN, lam |-> NaN, pi |-> NaN, Om |-> NaN]

(***************************************************************************)
(* Planet.setTime, lines 57-70: Kepler's equation.                         *)
(***************************************************************************)
MeanAnomaly(el) == Sub(el.lam, el.pi)

(* line 61 *)
KeplerSeed(el) ==
  LET M == MeanAnomaly(el) IN Add(M, Mul(el.e, Sin(M)))

(* A fault: the derivative 1 - e cos E of line 64 with its sign wrong. *)
KeplerDeltaWrongSign(els, Ecur) ==
  Div(Sub(Sub(els.lam, els.pi), Sub(Ecur, Mul(els.e, Sin(Ecur)))),
      Add(One, Mul(els.e, Cos(Ecur))))

(* lines 63-64 *)
KeplerDelta(el, E) ==
  LET M  == MeanAnomaly(el)
      dM == Sub(M, Sub(E, Mul(el.e, Sin(E))))
  IN  Div(dM, Sub(One, Mul(el.e, Cos(E))))

(* line 67.  The program's 1e-8 rad lies eight orders of magnitude above   *)
(* the rounding error of its arithmetic, and Newton's iteration relies on  *)
(* that: a step cannot be resolved to the rounding unit itself, where      *)
(* E - e sin E is no longer monotone in E.  The model's rounding unit is   *)
(* 1e-8 rad, so its tolerance is put two orders above it, at 1e-6 rad.     *)
KeplerTol == 100

KeplerDone(d) == Le(Abs(d), KeplerTol)

(***************************************************************************)
(* Planet.setTime, lines 72-85: the position from the eccentric anomaly.   *)
(***************************************************************************)
(* lines 83-85: the rotation into ecliptic coordinates *)
Ecliptic[u \in Int, v \in Int, sin_i \in Int, cos_i \in Int, sin_O \in Int, cos_O \in Int, sin_w \in Int, cos_w \in Int] ==
  [x |-> Add(Mul(u, Sub(Mul(cos_w, cos_O), Mul(Mul(sin_w, sin_O), cos_i))),
             Mul(v, Sub(Mul(Neg(sin_w), cos_O), Mul(Mul(cos_w, sin_O), cos_i)))),
   y |-> Add(Mul(u, Add(Mul(cos_w, sin_O), Mul(Mul(sin_w, cos_O), cos_i))),
             Mul(v, Add(Mul(Neg(sin_w), sin_O), Mul(Mul(cos_w, cos_O), cos_i)))),
   z |-> Add(Mul(u, Mul(sin_w, sin_i)), Mul(v, Mul(cos_w, sin_i)))]

(* lines 58, 73-82 *)
Position(el, E) ==
  Ecliptic[Mul(el.a, Sub(Cos(E), el.e)),
           Mul(Mul(el.a, Sqrt(Sub(One, Mul(el.e, el.e)))), Sin(E)),
           Sin(el.i), Cos(el.i), Sin(el.Om), Cos(el.Om),
           Sin(Sub(el.pi, el.Om)), Cos(Sub(el.pi, el.Om))]

(***************************************************************************)
(* The getters, lines 96-133, as functions of a body b = [time, x, y, z].  *)
(***************************************************************************)
Max3(p, q, r) ==
  IF p >= q THEN (IF p >= r THEN p ELSE r) ELSE (IF q >= r THEN q ELSE r)

Sq[a \in Int] == Mul8[a, a]

Norm[m \in Int, bx \in Int, by \in Int, bz \in Int] ==
  IF m = 0 THEN 0
  ELSE Mul(m, Sqrt(Sq[Div(bx, m)] + Sq[Div(by, m)] + Sq[Div(bz, m)]))

(* line 97.  Math.sqrt(x*x + y*y + z*z) keeps its relative precision       *)
(* whatever the length; in fixed point the same is had by factoring the    *)
(* largest coordinate out of the root.                                     *)
distance(b) ==
  IF IsNaN(b.x) \/ IsNaN(b.y) \/ IsNaN(b.z) THEN NaN
  ELSE Norm[Max3(Abs0(b.x), Abs0(b.y), Abs0(b.z)), b.x, b.y, b.z]

(* line 103, degrees *)
longitude(b) ==
  Add(RadToDeg(Atan2(Neg(b.y), Neg(b.x))), 180 * Micro)

(* line 109, degrees *)
latitude(b) == RadToDeg(Asin(Div(b.z, distance(b))))

(* lines 115-116, hours *)
right_ascension(b) ==
  LET e == obliquity(b.time)
  IN  Add(RadToHours(Atan2(Sub(Mul(b.z, Sin(e)), Mul(b.y, Cos(e))), Neg(b.x))),
          12 * Micro)

(* lines 124-125, degrees *)
declination(b) ==
  LET e == obliquity(b.time)
  IN  RadToDeg(Asin(Div(Add(Mul(b.y, Sin(e)), Mul(b.z, Cos(e))), distance(b))))

(* line 132: ha - Math.floor(ha / 24) * 24 *)
Wrap24[ha \in Int] ==
  IF IsNaN(ha) THEN NaN ELSE ha - (ha \div (24 * Micro)) * (24 * Micro)

(* lines 131-132, hours *)
hour_angle(b, lon) ==
  Wrap24[Sub(Add(gmst(b.time), DegToHours(lon)), right_ascension(b))]

(* line 142: 3590170.4 ms per hour of hour angle *)
HourMs(h) == Mul(h, 359017040)

(* line 140 *)
Nearest[ha \in Int] == IF Gt(ha, 12 * Micro) THEN ha - 24 * Micro ELSE ha

(* A fault: line 140 left out, the hour angle used as it comes. *)
transitUnwrapped(b, lat, lon) ==
  Sub(b.time, HourMs(hour_angle(b, lon)))

(* lines 139-142 *)
transit(b, lat, lon) ==
  Sub(b.time, HourMs(Nearest[hour_angle(b, lon)]))

(* line 175: 13713440.9 ms per radian of local hour angle *)
RadMsF[r \in Int] == IF IsNaN(r) THEN NaN ELSE Mul8[r, 137134409] \div 10
RadMs(r) == RadMsF[r]

(* line 179: one minute, in ms *)
Tolerance == 60000

(***************************************************************************)
(* The convenience queries (lines 199-207, 231-245, 262-269): the          *)
(* threshold h0 (degrees) and the direction each hands to riseset.         *)
(***************************************************************************)
Queries(k) ==
  IF k = "Sun" THEN {"dawn", "rise", "set", "dusk"} ELSE {"rise", "set"}

(* A fault: the Sun's two thresholds exchanged. *)
ThresholdSwapped(k, q, b) ==
  IF k = "Sun"
  THEN (IF q \in {"dawn", "dusk"} THEN 0 - 833000 ELSE 0 - 6 * Micro)
  ELSE IF k = "Moon" THEN Sub(0 - 583000, parallax(distance(b)))
  ELSE 0

Threshold(k, q, b) ==
  IF k = "Sun"
  THEN (IF q \in {"dawn", "dusk"} THEN 0 - 6 * Micro ELSE 0 - 833000)
  ELSE IF k = "Moon" THEN Sub(0 - 583000, parallax(distance(b)))
  ELSE 0

Direction(q) == IF q \in {"dawn", "rise"} THEN 0 - 1 ELSE 1

(***************************************************************************)
(* The inputs.  Times lie within a few weeks of the epoch, where every     *)
(* quantity of the model fits TLC's integers; latitudes run from the       *)
(* southern mid-latitudes to the polar circle and beyond; NaN stands for   *)
(* the malformed argument.                                                 *)
(***************************************************************************)
NTimes == 3
NLats == 5
NLons == 2
MaxIters == 8
MaxSteps == 50

Times == {(400 * i - 500) * 10^6 + 123457 * i : i \in 0..(NTimes - 1)}
Lats == {((133 * i * Micro) \div (NLats - 1)) - (133 * Micro) \div 2 : i \in 0..(NLats - 1)}
Lons == {(i * 75 - 120) * Micro : i \in 0..(NLons - 1)}
Kinds == {"Sun", "Moon"}

VARIABLES
  kind,       \* the class of the body: "Sun", "Moon", or the abstract "Planet"
  time, x, y, z,    \* the body's fields (NaN before the constructor has set them)
  pc,         \* "kepler": in setTime's loop; "idle": constructed, no call in
              \* progress; "eval": at the top of riseset's loop; "done": returned
  targ,       \* setTime's argument time
  el,         \* setTime's arguments a, e, i, lambda, pi, Omega
  E, dE,      \* setTime's locals
  ksteps,     \* iterations of the Kepler loop this setTime has made
  ret,        \* setTime's caller: "new" (the constructor or the user) or "riseset"
  op,         \* the query in progress
  lat, lon, h0, direction,    \* its arguments
  sin_lat, cos_lat, sin_h0,   \* riseset's locals, lines 151-154
  saved,      \* riseset's snapshot {time, x, y, z}, line 149
  entry,      \* history: the body's fields when the query was called
  cos_lha,    \* riseset's local, line 161, at the last evaluation
  cand,       \* riseset's local riseset, line 175, at the last evaluation
  evalTime,   \* this.time at the last evaluation
  iters,      \* the setTime calls this riseset has made
  result,     \* the value returned
  azimuth     \* an Observer's azimuth (its altitude is the result)

vars == <<kind, time, x, y, z, pc, targ, el, E, dE, ksteps, ret, op, lat, lon,
          h0, direction, sin_lat, cos_lat, sin_h0, saved, entry, cos_lha,
          cand, evalTime, iters, result, azimuth>>

body == [time |-> time, x |-> x, y |-> y, z |-> z]

callVars == <<op, lat, lon, h0, direction, sin_lat, cos_lat, sin_h0, saved,
              entry, cos_lha, cand, evalTime, iters, result, azimuth>>
bodyVars == <<time, x, y, z>>
keplerVars == <<targ, el, E, dE, ksteps, ret>>

Unset == [time |-> NaN, x |-> NaN, y |-> NaN, z |-> NaN]
NoElements == [a |-> NaN, e |-> NaN, i |-> NaN, lam |-> NaN, pi |-> NaN, Om |-> NaN]

NoCall ==
  /\ op = "none" /\ lat = NaN /\ lon = NaN /\ h0 = NaN /\ direction = 0
  /\ sin_lat = NaN /\ cos_lat = NaN /\ sin_h0 = NaN
  /\ saved = Unset /\ entry = Unset
  /\ cos_lha = NaN /\ cand = NaN /\ evalTime = NaN /\ iters = 0
  /\ result = NaN /\ azimuth = NaN

(* The constructor (lines 50-52) has called this.setTime(t), which has     *)
(* handed the elements to Planet.setTime, which has seeded E (line 61).    *)
Init ==
  /\ kind \in Kinds
  /\ targ \in Times \cup {NaN}
  /\ el = Elements(kind, targ)
  /\ E = KeplerSeed(el)
  /\ dE = NaN
  /\ ksteps = 0
  /\ ret = "new"
  /\ pc = "kepler"
  /\ time = NaN /\ x = NaN /\ y = NaN /\ z = NaN
  /\ NoCall

(* The count of iterations stops at MaxSteps.  A loop that runs on past it *)
(* (dE is NaN, and NaN <= 1e-8 is false) then repeats one and the same     *)
(* state: the program spinning in for(;;) is the model stuttering there.   *)
Count(n) == IF n < MaxSteps THEN n + 1 ELSE n

(* One iteration of the loop of lines 62-70 that does not break. *)
KeplerStep ==
  /\ pc = "kepler"
  /\ dE' = KeplerDelta(el, E)
  /\ E' = Add(E, dE')
  /\ ~KeplerDone(dE')
  /\ ksteps' = Count(ksteps)
  /\ UNCHANGED <<kind, pc, targ, el, ret>>
  /\ UNCHANGED bodyVars
  /\ UNCHANGED callVars

(* The iteration that breaks, and lines 72-91 after it. *)
KeplerBreak ==
  /\ pc = "kepler"
  /\ dE' = KeplerDelta(el, E)
  /\ E' = Add(E, dE')
  /\ KeplerDone(dE')
  /\ \E p \in {Position(el, E')} :
       /\ time' = targ
       /\ x' = p.x
       /\ y' = p.y
       /\ z' = p.z
  /\ ksteps' = Count(ksteps)
  /\ pc' = IF ret = "new" THEN "idle" ELSE "eval"
  /\ UNCHANGED <<kind, targ, el, ret>>
  /\ UNCHANGED callVars

(* rise, set, dawn, dusk: the call of riseset and its lines 149-154. *)
Call(q, la, lo) ==
  /\ pc = "idle"
  /\ q \in Queries(kind)
  /\ op' = q
  /\ lat' = la
  /\ lon' = lo
  /\ h0' = Threshold(kind, q, body)
  /\ direction' = Direction(q)
  /\ saved' = body
  /\ entry' = body
  /\ sin_lat' = Sin(DegToRad(la))
  /\ cos_lat' = Cos(DegToRad(la))
  /\ sin_h0' = Sin(DegToRad(h0'))
  /\ iters' = 0
  /\ pc' = "eval"
  /\ UNCHANGED <<kind, cos_lha, cand, evalTime, result, azimuth>>
  /\ UNCHANGED bodyVars
  /\ UNCHANGED keplerVars

(* lines 159-161 *)
SunriseEquation[dec \in Int, sh \in Int, sl \in Int, cl \in Int] ==
  LET sin_dec == Sin(DegToRad(dec))
      cos_dec == Cos(DegToRad(dec))
  IN  Div(Sub(sh, Mul(sl, sin_dec)), Mul(cl, cos_dec))

(* lines 158-161 *)
CosLha == SunriseEquation[declination(body), sin_h0, sin_lat, cos_lat]

(* line 163 *)
NoCrossing(c) == Gt(Abs(c), One)

(* A fault: the candidate computed from the state saved at entry. *)
CandidateFromEntry(c) ==
  Add(transit(saved, lat, lon), RadMs(Mul(direction * One, Acos(c))))

(* line 175 *)
Candidate(c) ==
  Add(transit(body, lat, lon), RadMs(Mul(direction * One, Acos(c))))

(* A fault: the candidate compared with the time saved at entry (the    *)
(* local `time` of line 149) instead of this.time.                       *)
TooFarFromEntry(r) == Ge(Abs(Sub(r, saved.time)), Tolerance)

(* line 179 *)
TooFar(r) == Ge(Abs(Sub(r, time)), Tolerance)

(* Faults: a restore that writes the time back and leaves the position. *)
RestoreOnBailTimeOnly == time' = saved.time /\ UNCHANGED <<x, y, z>>
RestoreOnReturnTimeOnly == time' = saved.time /\ UNCHANGED <<x, y, z>>

(* A fault: the early exit returning a number. *)
NoEventValueZero == 0 * One

(* line 171 *)
NoEventValue == NaN

(* lines 165-168: restore state *)
RestoreOnBail ==
  /\ time' = saved.time
  /\ x' = saved.x
  /\ y' = saved.y
  /\ z' = saved.z

(* lines 187-190: restore state *)
RestoreOnReturn ==
  /\ time' = saved.time
  /\ x' = saved.x
  /\ y' = saved.y
  /\ z' = saved.z

(* lines 163-172: no crossing; restore and return NaN. *)
NoEvent ==
  /\ pc = "eval"
  /\ cos_lha' = CosLha
  /\ NoCrossing(cos_lha')
  /\ evalTime' = time
  /\ RestoreOnBail
  /\ result' = NoEventValue
  /\ pc' = "done"
  /\ UNCHANGED <<kind, op, lat, lon, h0, direction, sin_lat, cos_lat, sin_h0,
                 saved, entry, cand, iters, azimuth>>
  /\ UNCHANGED keplerVars

(* lines 175-182: the candidate is a minute or more away; this.setTime     *)
(* (riseset) is entered, up to its line 61.                                *)
Continue ==
  /\ pc = "eval"
  /\ iters < MaxIters
  /\ cos_lha' = CosLha
  /\ ~NoCrossing(cos_lha')
  /\ cand' = Candidate(cos_lha')
  /\ TooFar(cand')
  /\ evalTime' = time
  /\ iters' = iters + 1
  /\ targ' = cand'
  /\ el' = Elements(kind, targ')
  /\ E' = KeplerSeed(el')
  /\ dE' = NaN
  /\ ksteps' = 0
  /\ ret' = "riseset"
  /\ pc' = "kepler"
  /\ UNCHANGED <<kind, op, lat, lon, h0, direction, sin_lat, cos_lat, sin_h0,
                 saved, entry, result, azimuth>>
  /\ UNCHANGED bodyVars

(* lines 184-193: the candidate is accepted; restore and return it. *)
Accept ==
  /\ pc = "eval"
  /\ cos_lha' = CosLha
  /\ ~NoCrossing(cos_lha')
  /\ cand' = Candidate(cos_lha')
  /\ ~TooFar(cand')
  /\ evalTime' = time
  /\ RestoreOnReturn
  /\ result' = cand'
  /\ pc' = "done"
  /\ UNCHANGED <<kind, op, lat, lon, h0, direction, sin_lat, cos_lat, sin_h0,
                 saved, entry, iters, azimuth>>
  /\ UNCHANGED keplerVars

(* transit(lat, lon), lines 138-143. *)
Transit(la, lo) ==
  /\ pc = "idle"
  /\ op' = "transit"
  /\ lat' = la
  /\ lon' = lo
  /\ entry' = body
  /\ result' = transit(body, la, lo)
  /\ pc' = "done"
  /\ UNCHANGED <<kind, h0, direction, sin_lat, cos_lat, sin_h0, saved, cos_lha,
                 cand, evalTime, iters, azimuth>>
  /\ UNCHANGED bodyVars
  /\ UNCHANGED keplerVars

(* new Observer(planet, lat, lon), lines 22-46: its altitude is the        *)
(* result, its azimuth the azimuth.                                        *)
Topocentric[sin_altitude \in Int, par \in Int] ==
  Sub(RadToDeg(Asin(sin_altitude)),
      Mul(par, Sqrt(Sub(One, Mul(sin_altitude, sin_altitude)))))

Horizontal[sin_la \in Int, cos_la \in Int, sin_dec \in Int, cos_dec \in Int, sin_ha \in Int, cos_ha \in Int, par \in Int] ==
  [altitude |-> Topocentric[Add(Mul(sin_la, sin_dec),
                                Mul(Mul(cos_la, cos_dec), cos_ha)), par],
   azimuth  |-> Add(RadToDeg(Atan2(Mul(cos_dec, sin_ha),
                                   Sub(Mul(Mul(sin_la, cos_dec), cos_ha),
                                       Mul(cos_la, sin_dec)))),
                    180 * Micro)]

Observer(b, la, lo) ==
  Horizontal[Sin(DegToRad(la)), Cos(DegToRad(la)),
             Sin(DegToRad(declination(b))), Cos(DegToRad(declination(b))),
             Sin(HoursToRad(hour_angle(b, lo))), Cos(HoursToRad(hour_angle(b, lo))),
             parallax(distance(b))]

Observe(la, lo) ==
  /\ pc = "idle"
  /\ op' = "observer"
  /\ lat' = la
  /\ lon' = lo
  /\ entry' = body
  /\ \E o \in {Observer(body, la, lo)} :
       /\ result' = o.altitude
       /\ azimuth' = o.azimuth
  /\ pc' = "done"
  /\ UNCHANGED <<kind, h0, direction, sin_lat, cos_lat, sin_h0, saved, cos_lha,
                 cand, evalTime, iters>>
  /\ UNCHANGED bodyVars
  /\ UNCHANGED keplerVars

(* body.setTime(t) called by the program's user: Sun.setTime or           *)
(* Moon.setTime hand the elements to Planet.setTime, up to its line 61.   *)
SetTime(t) ==
  /\ pc = "idle"
  /\ targ' = t
  /\ el' = Elements(kind, t)
  /\ E' = KeplerSeed(el')
  /\ dE' = NaN
  /\ ksteps' = 0
  /\ ret' = "new"
  /\ pc' = "kepler"
  /\ UNCHANGED kind
  /\ UNCHANGED bodyVars
  /\ UNCHANGED callVars

(* The caller has the value; the body is ready for the next query. *)
Return ==
  /\ pc = "done"
  /\ pc' = "idle"
  /\ op' = "none" /\ lat' = NaN /\ lon' = NaN /\ h0' = NaN /\ direction' = 0
  /\ sin_lat' = NaN /\ cos_lat' = NaN /\ sin_h0' = NaN
  /\ saved' = Unset /\ entry' = Unset
  /\ cos_lha' = NaN /\ cand' = NaN /\ evalTime' = NaN /\ iters' = 0
  /\ result' = NaN /\ azimuth' = NaN
  /\ targ' = NaN /\ el' = NoElements /\ E' = NaN /\ dE' = NaN
  /\ ksteps' = 0 /\ ret' = "new"
  /\ UNCHANGED kind
  /\ UNCHANGED bodyVars

Next ==
  \/ KeplerStep
  \/ KeplerBreak
  \/ \E q \in {"dawn", "rise", "set", "dusk"}, la \in Lats \cup {NaN}, lo \in Lons \cup {NaN} :
       Call(q, la, lo)
  \/ NoEvent
  \/ Continue
  \/ Accept
  \/ \E la \in Lats \cup {NaN}, lo \in Lons \cup {NaN} : Transit(la, lo)
  \/ \E la \in Lats \cup {NaN}, lo \in Lons \cup {NaN} : Observe(la, lo)
  \/ \E t \in Times \cup {NaN} : SetTime(t)
  \/ Return

Spec == Init /\ [][Next]_vars

(* The program is sequential: a step that can be taken is taken. *)
FairSpec == Spec /\ WF_vars(Next)

(***************************************************************************)
(* Planet.setTime alone, called on arbitrary elements: eccentricities over *)
(* [0, 0.9] and mean anomalies over [0, 2 pi), denser towards 0 and 2 pi   *)
(* where Newton's iteration has most to do.                                *)
(***************************************************************************)
NEcc == 10
NAnom == 12

Eccentricities == {(9 * k * 10^7) \div (NEcc - 1) : k \in 0..(NEcc - 1)}
Anomalies ==
  {(Pi \div (NAnom * NAnom)) * j * j : j \in 0..NAnom} \cup
  {TwoPi - 1 - (Pi \div (NAnom * NAnom)) * j * j : j \in 0..(NAnom - 1)}

KInit ==
  /\ kind = "Planet"
  /\ targ = 0
  /\ el \in {[a |-> One, e |-> ecc, i |-> 0, lam |-> M, pi |-> 0, Om |-> 0] :
               ecc \in Eccentricities, M \in Anomalies}
  /\ E = KeplerSeed(el)
  /\ dE = NaN
  /\ ksteps = 0
  /\ ret = "new"
  /\ pc = "kepler"
  /\ time = NaN /\ x = NaN /\ y = NaN /\ z = NaN
  /\ NoCall

KNext == KeplerStep \/ KeplerBreak

KSpec == KInit /\ [][KNext]_vars


(***************************************************************************)
(* What the properties below share.                                        *)
(***************************************************************************)
RisesetOps == {"dawn", "rise", "set", "dusk"}

Finite(v) == ~IsNaN(v)

ElementSets == [a : Int, e : Int, i : Int, lam : Int, pi : Int, Om : Int]

(* The eccentric anomaly the loop of lines 62-70 ends with, started at     *)
(* Ecur, as one recursion instead of one state per iteration.              *)
EccentricAnomaly[els \in ElementSets, Ecur \in Int, fuel \in Nat] ==
  LET d == KeplerDelta(els, Ecur)
  IN  IF KeplerDone(d) \/ fuel = 0 THEN Add(Ecur, d)
      ELSE EccentricAnomaly[els, Add(Ecur, d), fuel - 1]

(* The position the element formulas of class k give for the time t. *)
PositionAt(k, t) ==
  LET els == IF k = "Sun" THEN SunElements(t) ELSE MoonElements(t)
  IN  Position(els, EccentricAnomaly[els, KeplerSeed(els), MaxSteps])

(***************************************************************************)
(* C1.  When rise, set, dawn or dusk has returned, the body's time, x, y   *)
(* and z are exactly what they were when the query was called, whether it  *)
(* returned a candidate or the no-event NaN, and however many times the    *)
(* loop called setTime in between.                                         *)
(***************************************************************************)
RisesetRestores ==
  (pc = "done" /\ op \in RisesetOps) => body = entry

(* A query that moved the body and then found no event. *)
RestoredAfterMoving ==
  /\ pc = "done" /\ op \in RisesetOps
  /\ iters >= 1 /\ evalTime # entry.time
  /\ Finite(lat) /\ Finite(lon) /\ IsNaN(result)
  /\ body = entry

(***************************************************************************)
(* C2.  An evaluation that finds |cos_lha| > 1, the first or a later one,  *)
(* ends the call at once: the NaN sentinel is the value returned, no       *)
(* candidate is computed and setTime is not called again.  And a query     *)
(* that returned a number found |cos_lha| <= 1 at its last evaluation.     *)
(***************************************************************************)
NoEventIsNaN ==
  /\ [][(pc = "eval" /\ Gt(Abs(CosLha), One))
          => /\ pc' = "done"
             /\ IsNaN(result')
             /\ cand' = cand
             /\ iters' = iters]_vars
  /\ []((pc = "done" /\ op \in RisesetOps /\ Finite(result))
          => Le(Abs(cos_lha), One))

(* The Moon moved to a candidate at which it does not cross the threshold. *)
LateNoEvent ==
  /\ pc = "done" /\ op \in RisesetOps
  /\ kind = "Moon" /\ iters >= 1
  /\ Gt(Abs(cos_lha), One)
  /\ IsNaN(result) /\ Finite(cand)

(***************************************************************************)
(* C3.  At every evaluation of the loop for Moon.rise and Moon.set, the    *)
(* threshold in use is -0.583 - parallax(d) for the distance d of the body *)
(* state that evaluation reads.                                            *)
(***************************************************************************)
MoonThresholdCurrent ==
  (pc = "eval" /\ kind = "Moon")
    => /\ h0 = Sub(0 - 583000, parallax(distance(body)))
       /\ sin_h0 = Sin(DegToRad(Sub(0 - 583000, parallax(distance(body)))))

(***************************************************************************)
(* C4.  transit(lat, lon) is time - 3590170.4 h, for h the hour angle (in  *)
(* [0, 24)) less 24 exactly when it is above 12; so h is in (-12, 12], the *)
(* result is within 86 400 000 ms of the body's time, and it is the same   *)
(* whatever lat is.                                                        *)
(***************************************************************************)
TransitNearest ==
  (pc = "done" /\ op = "transit" /\ Finite(lon))
    => LET ha == hour_angle(entry, lon)
           h  == IF ha > 12 * Micro THEN ha - 24 * Micro ELSE ha
       IN  /\ 0 <= ha /\ ha < 24 * Micro
           /\ 0 - 12 * Micro < h /\ h <= 12 * Micro
           /\ result = entry.time - HourMs(h)
           /\ Abs0(result - entry.time) <= 86400000
           /\ \A la \in Lats \cup {NaN} : transit(entry, la, lon) = result

(* A transit whose hour angle is past 12 h: the previous one is nearer. *)
TransitWrapped ==
  /\ pc = "done" /\ op = "transit" /\ Finite(lon) /\ Finite(lat)
  /\ hour_angle(entry, lon) > 12 * Micro
  /\ result > entry.time

(***************************************************************************)
(* C5.  An operation given a NaN argument completes: a Sun or Moon         *)
(* constructed at, or set to, the time NaN comes to rest, and a query      *)
(* given a NaN lat or lon returns NaN and leaves the body as it was.       *)
(***************************************************************************)
MalformedCompletes ==
  /\ (pc = "kepler" /\ IsNaN(targ)) ~> (pc = "idle")
  /\ []((pc = "done" /\ op \in RisesetOps /\ (IsNaN(lat) \/ IsNaN(lon)))
          => (IsNaN(result) /\ body = entry))

(***************************************************************************)
(* C6.  Wherever the body can be read (constructed, at an evaluation point *)
(* of the loop, returned from a query) its x, y, z are the position its    *)
(* own class's element formulas give for its time.                         *)
(***************************************************************************)
PositionConsistent ==
  (pc \in {"idle", "eval", "done"} /\ Finite(time))
    => <<x, y, z>> = <<PositionAt(kind, time).x, PositionAt(kind, time).y,
                       PositionAt(kind, time).z>>

(* An evaluation point the loop has moved the body to. *)
MovedEvaluation ==
  /\ pc = "eval" /\ iters >= 1
  /\ time # saved.time /\ x # saved.x

(***************************************************************************)
(* C7.  Each convenience query hands riseset its own fixed pair: the Sun's *)
(* dawn (-6, -1), rise (-0.833, -1), set (-0.833, +1), dusk (-6, +1); the  *)
(* generic Planet's rise (0, -1) and set (0, +1); rising is always -1 and  *)
(* setting +1; the Moon has no dawn and no dusk.                           *)
(***************************************************************************)
QueryArguments ==
  /\ (op \in RisesetOps /\ kind = "Sun")
       => <<h0, direction>> =
            CASE op = "dawn" -> <<0 - 6000000, 0 - 1>>
              [] op = "rise" -> <<0 - 833000, 0 - 1>>
              [] op = "set"  -> <<0 - 833000, 1>>
              [] op = "dusk" -> <<0 - 6000000, 1>>
  /\ (op \in RisesetOps /\ kind = "Moon")
       => /\ op \in {"rise", "set"}
          /\ direction = (IF op = "rise" THEN 0 - 1 ELSE 1)
  /\ <<Threshold("Planet", "rise", body), Direction("rise")>> = <<0, 0 - 1>>
  /\ <<Threshold("Planet", "set", body), Direction("set")>> = <<0, 1>>
  /\ Queries("Planet") = {"rise", "set"}

(* The Sun's dusk found. *)
DuskFound ==
  /\ pc = "done" /\ kind = "Sun" /\ op = "dusk" /\ Finite(result)
  /\ h0 = 0 - 6000000 /\ direction = 1

(***************************************************************************)
(* C8.  The loop substitutes: each evaluation computes the candidate       *)
(* transit + 13713440.9 direction acos(cos_lha) from the body as it then   *)
(* is; a candidate a minute or more from the body's time becomes the       *)
(* body's time, with the position recomputed, and is evaluated next; a     *)
(* number is returned only if it is the last candidate and lies less than  *)
(* a minute from the time that candidate was computed at.                  *)
(***************************************************************************)
SuccessiveSubstitution ==
  /\ [][(pc = "eval" /\ pc' = "kepler")
          => /\ cand' = Add(transit(body, lat, lon),
                            RadMs(Mul(direction * One, Acos(CosLha))))
             /\ Abs0(cand' - time) >= 60000
             /\ targ' = cand']_vars
  /\ [][(pc = "kepler" /\ pc' = "eval")
          => /\ time' = cand
             /\ x' = PositionAt(kind, cand).x]_vars
  /\ [][(pc = "eval" /\ pc' = "done" /\ Finite(result'))
          => /\ result' = Add(transit(body, lat, lon),
                              RadMs(Mul(direction * One, Acos(CosLha))))
             /\ Abs0(result' - time) < 60000]_vars
  /\ []((pc = "done" /\ op \in RisesetOps /\ Finite(result))
          => (result = cand /\ Abs0(result - evalTime) < 60000))

(* A candidate accepted at the third substitution or later. *)
AcceptedAfterSubstitutions ==
  /\ pc = "done" /\ op \in RisesetOps
  /\ Finite(result) /\ iters >= 3
  /\ result = cand /\ evalTime # entry.time

=============================================================================
